---------------------------- MODULE Spec2Model ----------------------------
(***************************************************************************)
(* A model of the split-window land surface temperature retrieval of       *)
(* i.landsat8.swlst: the SplitWindowLST object (split_window_lst.py), the  *)
(* r.mapcalc expressions it builds, and their evaluation on one pixel;     *)
(* the column water vapor estimator (column_water_vapor.py and the older   *)
(* column_water_vapour.py), its window expressions and their evaluation    *)
(* on a small scene; and the whole pipeline run twice on the same inputs.  *)
(* Spec works the cells of a region one at a time; SpecObject calls the    *)
(* methods of a constructed object; SpecConfigured calls estimate_lst with *)
(* any land cover arguments; SpecSelection selects the subranges of a cell *)
(* both ways; SpecCwv is the estimator; SpecTwice is the repeated run.     *)
(*                                                                         *)
(* Units.  Column water vapor is held in tenths of g/cm^2 (every subrange  *)
(* bound is a multiple of 0.1).  Channel emissivities are held in          *)
(* thousandths, as the emissivity table writes them; the average           *)
(* emissivity 0.5 * (e10 + e11) is held in units of 1/2000 and the delta   *)
(* emissivity e10 - e11 in units of 1/1000, so both are exact.  The        *)
(* regression coefficients b0..b7 are held in hundredths.  Temperatures    *)
(* are in kelvin.  A land surface temperature is held in units of          *)
(* 1/400000 K and computed in fixed point (three decimals for the two      *)
(* emissivity quotients), standing for the floating point of r.mapcalc.    *)
(***************************************************************************)
EXTENDS Integers, Sequences, FiniteSets

VARIABLES
    pc,                  \* "new", "fixed", "map" or "failed" (AssertionError)
    landcover,           \* what SplitWindowLST( ) was called with
    landcover_class,     \* self.landcover_class: a class name, or NoClass
    emissivity_t10,      \* self.emissivity_t10
    emissivity_t11,      \* self.emissivity_t11
    average_emissivity,  \* self.average_emissivity
    delta_emissivity,    \* self.delta_emissivity
    average_lse_mapcalc, \* self.average_lse_mapcalc
    delta_lse_mapcalc,   \* self.delta_lse_mapcalc
    sw_lst_mapcalc,      \* self.sw_lst_mapcalc
    fromglc,             \* the pixel's land cover code (FROM-GLC map)
    avg_lse,             \* the pixel's average emissivity map value
    delta_lse,           \* the pixel's delta emissivity map value
    cwv,                 \* the pixel's column water vapor map value
    t10,                 \* the pixel's brightness temperature, band 10
    t11,                 \* the pixel's brightness temperature, band 11
    lst,                 \* the pixel's land surface temperature
    subranges,           \* what _retrieve_adjacent_cwv_subranges returned
    cwv_coefficients,    \* self.cwv_coefficients
    rmse,                \* self.rmse
    cwv_subrange,        \* self._cwv_subrange
    cwv_subrange_a,      \* self._cwv_subrange_a
    cwv_subrange_b,      \* self._cwv_subrange_b
    returned,            \* what the last call of a method returned or raised
    rounding,            \* estimate_lst(rounding = ...)
    celsius,             \* estimate_lst(celsius = ...)
    outname,             \* the pixel's value of the map estimate_lst writes
    lst_args,            \* estimate_lst's landcover_map and landcover_class
    lst_error,           \* the error estimate_lst ended with, or "none"
    cwv_pc,              \* the estimator: "new", "built" or "failed"
    cwv_module,          \* "column_water_vapor" or "column_water_vapour"
    window_size,         \* what the estimator was constructed with
    model_constants,     \* self.c0, self.c1, self.c2 (thousandths)
    adjacent_pixels,     \* self.adjacent_pixels
    mean_ti_expression,  \* self.mean_ti_expression
    mean_tj_expression,  \* self.mean_tj_expression
    median_ti_expression, \* self.median_ti_expression
    median_tj_expression, \* self.median_tj_expression
    ratio_ji_expression, \* self.ratio_ji_expression
    cwv_expression,      \* self.column_water_vapour_expression (older class)
    scene,               \* the neighbourhood of the cell the estimator runs on
    ti_mean,             \* the cell's window mean of ti
    tj_mean,             \* the cell's window mean of tj
    ti_median,           \* the cell's window median of ti
    tj_median,           \* the cell's window median of tj
    rji,                 \* the cell's ratio Rji
    cwv_estimate,        \* the cell's estimated column water vapor
    stage,               \* how far the cell is: "none", "means", "ratio", "cwv"
    run,                 \* the error a call on the estimator raised, or "none"
    asked,               \* what estimate_cwv was called with
    rasters,             \* the names of the rasters estimate_cwv has written
    twin                 \* the outcome of an earlier run on the same inputs

vars == <<pc, landcover, landcover_class, emissivity_t10, emissivity_t11,
          average_emissivity, delta_emissivity, average_lse_mapcalc,
          delta_lse_mapcalc, sw_lst_mapcalc, fromglc, avg_lse, delta_lse,
          cwv, t10, t11, lst, subranges, cwv_coefficients, rmse,
          cwv_subrange, cwv_subrange_a, cwv_subrange_b, returned,
          rounding, celsius, outname, lst_args, lst_error,
          cwv_pc, cwv_module, window_size, model_constants, adjacent_pixels,
          mean_ti_expression, mean_tj_expression, median_ti_expression,
          median_tj_expression, ratio_ji_expression, cwv_expression,
          scene, ti_mean, tj_mean, ti_median, tj_median, rji, cwv_estimate,
          stage, run, asked, rasters, twin>>

object == <<pc, landcover, landcover_class, emissivity_t10, emissivity_t11,
            average_emissivity, delta_emissivity, average_lse_mapcalc,
            delta_lse_mapcalc, sw_lst_mapcalc>>

pixel == <<fromglc, avg_lse, delta_lse, cwv, t10, t11, lst>>

stored == <<cwv_subrange, cwv_subrange_a, cwv_subrange_b>>

report == <<cwv_coefficients, rmse, stored, returned>>

post == <<rounding, celsius, outname, lst_args, lst_error>>

estimator == <<cwv_pc, cwv_module, window_size, model_constants,
               adjacent_pixels, mean_ti_expression, mean_tj_expression,
               median_ti_expression, median_tj_expression,
               ratio_ji_expression, cwv_expression>>

cell == <<scene, ti_mean, tj_mean, ti_median, tj_median, rji,
          cwv_estimate, stage>>

call == <<run, asked, rasters>>

window == <<cell, call>>

-----------------------------------------------------------------------------
(* Bounds of the model. *)

\* column water vapor values run from -CwvBelow to MaxCwv (tenths)
CwvBelow == 3
MaxCwv == 66
\* land cover codes run from 0 to MaxCode
MaxCode == 125

CwvValues == (0 - CwvBelow) .. MaxCwv
LandcoverCodes == 0 .. MaxCode
T10Values == {298, 300}
T11Values == {298}

-----------------------------------------------------------------------------
(* Values that may be absent: an attribute not set, a null() cell. *)

Null == [null |-> TRUE, val |-> 0]
Val(v) == [null |-> FALSE, val |-> v]

\* self.landcover_class = False
NoClass == "False"

-----------------------------------------------------------------------------
(* The look-up tables. *)

\* EMISSIVITIES: class name -> (TIRS10, TIRS11), in thousandths
EMISSIVITIES ==
    [Cropland     |-> [TIRS10 |-> 971, TIRS11 |-> 968],
     Forest       |-> [TIRS10 |-> 995, TIRS11 |-> 996],
     Grasslands   |-> [TIRS10 |-> 970, TIRS11 |-> 971],
     Shrublands   |-> [TIRS10 |-> 969, TIRS11 |-> 970],
     Wetlands     |-> [TIRS10 |-> 992, TIRS11 |-> 998],
     Waterbodies  |-> [TIRS10 |-> 992, TIRS11 |-> 998],
     Tundra       |-> [TIRS10 |-> 980, TIRS11 |-> 984],
     Impervious   |-> [TIRS10 |-> 973, TIRS11 |-> 981],
     Barren_Land  |-> [TIRS10 |-> 969, TIRS11 |-> 978],
     Snow_and_ice |-> [TIRS10 |-> 992, TIRS11 |-> 998]]

EmissivityKeys == DOMAIN EMISSIVITIES

\* FROM_GLC_LEGEND.keys(): the names of the FROM-GLC legend
FromGlcLegendKeys ==
    {"Cropland", "Forest", "Grasslands", "Shrublands", "Wetlands",
     "Waterbodies", "Tundra", "Impervious", "Barren_Land", "Snow_and_ice"}

\* COLUMN_WATER_VAPOR.keys(), in the order of the table
RangeKeys ==
    <<"Range_1", "Range_2", "Range_3", "Range_4", "Range_5", "Range_6">>

\* COLUMN_WATER_VAPOR: subrange (tenths), b0..b7 and rmse (hundredths)
COLUMN_WATER_VAPOR ==
    [Range_1 |-> [subrange |-> <<0, 25>>, rmse |-> 34,
                  b |-> <<-278, 101, 16, -35, 404, 355, -888, 9>>],
     Range_2 |-> [subrange |-> <<20, 35>>, rmse |-> 60,
                  b |-> <<1101, 96, 17, -29, 711, 43, -662, -6>>],
     Range_3 |-> [subrange |-> <<30, 45>>, rmse |-> 71,
                  b |-> <<963, 96, 14, -17, 788, 518, -1327, -8>>],
     Range_4 |-> [subrange |-> <<40, 55>>, rmse |-> 86,
                  b |-> <<61, 99, 10, -10, 786, 687, -1501, -1>>],
     Range_5 |-> [subrange |-> <<50, 63>>, rmse |-> 93,
                  b |-> <<-35, 98, 6, -4, 1196, 907, -1474, -20>>],
     Range_6 |-> [subrange |-> <<0, 63>>, rmse |-> 87,
                  b |-> <<-41, 101, 15, -27, 407, -693, -1827, 24>>]]

-----------------------------------------------------------------------------
(* Emissivities of a land cover class. *)

\* _landcover_string_validity
LandcoverStringValidity(string) ==
    IF string \in FromGlcLegendKeys THEN TRUE
    ELSE IF string = "Random" THEN TRUE
    ELSE FALSE

\* a class drawn at random whatever the name
RandomChoice_WhateverName(string) == EmissivityKeys

\* random.choice(list(EMISSIVITIES.keys())) for 'Random', else the class
RandomChoice(string) ==
    IF string = "Random" THEN EmissivityKeys ELSE {string}

\* _retrieve_average_emissivities, for a class of the table
RetrieveAverageEmissivities(class) ==
    <<EMISSIVITIES[class].TIRS10, EMISSIVITIES[class].TIRS11>>

\* 0.5 * (e10 - e11): the difference taken for the sum
ComputeAverageEmissivity_Difference(class) ==
    LET e == RetrieveAverageEmissivities(class) IN e[1] - e[2]

\* 0.5 * (e10 + e10): band 10 taken for both channels
ComputeAverageEmissivity_Band10Twice(class) ==
    LET e == RetrieveAverageEmissivities(class) IN e[1] + e[1]

\* _compute_average_emissivity: 0.5 * (e10 + e11), in units of 1/2000
ComputeAverageEmissivity(class) ==
    LET e == RetrieveAverageEmissivities(class) IN e[1] + e[2]

\* e11 - e10: the channels taken the other way round
ComputeDeltaEmissivity_Reversed(class) ==
    LET e == RetrieveAverageEmissivities(class) IN e[2] - e[1]

\* _compute_delta_emissivity: e10 - e11, in units of 1/1000
ComputeDeltaEmissivity(class) ==
    LET e == RetrieveAverageEmissivities(class) IN e[1] - e[2]

-----------------------------------------------------------------------------
(* Column water vapor subranges and their coefficients. *)

\* check_cwv: a column water vapor outside the domain is not raised
CheckCwv(column_water_vapor) == TRUE

\* low <= cwv <= high: the subrange taken as a closed interval
InSubrange_Closed(key, column_water_vapor) ==
    LET low == COLUMN_WATER_VAPOR[key].subrange[1]
        high == COLUMN_WATER_VAPOR[key].subrange[2]
    IN low <= column_water_vapor /\ column_water_vapor <= high

\* low < cwv < high, the test of a subrange
InSubrange(key, column_water_vapor) ==
    LET low == COLUMN_WATER_VAPOR[key].subrange[1]
        high == COLUMN_WATER_VAPOR[key].subrange[2]
    IN low < column_water_vapor /\ column_water_vapor < high

\* the comprehension over all six subranges, not subranges[:5]
MatchingSubranges_AllSix(column_water_vapor) ==
    SelectSeq(RangeKeys, LAMBDA key : InSubrange(key, column_water_vapor))

\* result = [range_x for range_x, (low, high) in subranges[:5] if ...]
MatchingSubranges(column_water_vapor) ==
    SelectSeq(SubSeq(RangeKeys, 1, 5),
              LAMBDA key : InSubrange(key, column_water_vapor))

\* the first of two subranges returned alone
RetrieveAdjacentCwvSubranges_FirstOfTwo(column_water_vapor) ==
    LET result == MatchingSubranges(column_water_vapor) IN
    IF Len(result) \in {1, 2} THEN [type |-> "str", keys |-> <<result[1]>>]
    ELSE [type |-> "str", keys |-> <<RangeKeys[6]>>]

\* _retrieve_adjacent_cwv_subranges: a string, or a tuple of two strings
RetrieveAdjacentCwvSubranges(column_water_vapor) ==
    LET result == MatchingSubranges(column_water_vapor) IN
    IF Len(result) = 1 THEN [type |-> "str", keys |-> <<result[1]>>]
    ELSE IF Len(result) = 2
         THEN [type |-> "tuple", keys |-> <<result[1], result[2]>>]
    ELSE [type |-> "str", keys |-> <<RangeKeys[6]>>]

\* the b7 of the table, whatever the class
RetrieveB7_AnyClass(class, subrange) == COLUMN_WATER_VAPOR[subrange].b[8]

\* the b7 zeroed for the classes named other than Barren_Land only
RetrieveB7_UnlessNamed(class, subrange) ==
    IF class \in EmissivityKeys \ {"Barren_Land"} THEN 0
    ELSE COLUMN_WATER_VAPOR[subrange].b[8]

\* the b7 of _retrieve_cwv_coefficients
RetrieveB7(class, subrange) ==
    IF class = "Barren_Land" THEN COLUMN_WATER_VAPOR[subrange].b[8] ELSE 0

\* _retrieve_cwv_coefficients: (b0, ..., b7)
RetrieveCwvCoefficients(class, subrange) ==
    LET b == COLUMN_WATER_VAPOR[subrange].b IN
    <<b[1], b[2], b[3], b[4], b[5], b[6], b[7], RetrieveB7(class, subrange)>>

-----------------------------------------------------------------------------
(* The emissivity expressions for a land cover map. *)

Class_10(code) == code >= 10 /\ code < 20
Class_20(code) == code >= 20 /\ code < 30
Class_30(code) ==
    code = 51 \/ code = 72 \/ (code >= 30 /\ code < 40)
Class_40(code) == code = 71 \/ (code >= 40 /\ code < 50)
Class_50(code) == code >= 50 /\ code < 52
Class_60(code) == code >= 60 /\ code < 70
Class_70(code) == code >= 70 /\ code < 72
Class_80(code) == code >= 80 /\ code < 90
Class_90(code) == code = 52 \/ (code >= 90 /\ code < 100)
\* the cloud code 120 taken into the last class
Class_100_WithCloud(code) == code >= 100 /\ code <= 120

Class_100(code) == code >= 100 /\ code < 120

\* the class predicates of the eval, by the name of the class they stand for
ClassPredicate(name, code) ==
    CASE name = "Cropland"     -> Class_10(code)
      [] name = "Forest"       -> Class_20(code)
      [] name = "Grasslands"   -> Class_30(code)
      [] name = "Shrublands"   -> Class_40(code)
      [] name = "Wetlands"     -> Class_50(code)
      [] name = "Waterbodies"  -> Class_60(code)
      [] name = "Tundra"       -> Class_70(code)
      [] name = "Impervious"   -> Class_80(code)
      [] name = "Barren_Land"  -> Class_90(code)
      [] name = "Snow_and_ice" -> Class_100(code)

\* the values _build_average_emissivity_mapcalc formats into its expression
BuildAverageEmissivityMapcalc ==
    [average_10  |-> ComputeAverageEmissivity("Cropland"),
     average_20  |-> ComputeAverageEmissivity("Forest"),
     average_30  |-> ComputeAverageEmissivity("Grasslands"),
     average_40  |-> ComputeAverageEmissivity("Shrublands"),
     average_60  |-> ComputeAverageEmissivity("Waterbodies"),
     average_80  |-> ComputeAverageEmissivity("Impervious"),
     average_90  |-> ComputeAverageEmissivity("Barren_Land"),
     average_100 |-> ComputeAverageEmissivity("Snow_and_ice")]

\* the nested if of the average emissivity expression, on one cell
EvalAverageEmissivity(expression, code) ==
    IF Class_10(code) THEN Val(expression.average_10)
    ELSE IF Class_20(code) THEN Val(expression.average_20)
    ELSE IF Class_30(code) THEN Val(expression.average_30)
    ELSE IF Class_40(code) THEN Val(expression.average_40)
    ELSE IF Class_50(code) THEN Val(expression.average_60)
    ELSE IF Class_60(code) THEN Val(expression.average_60)
    ELSE IF Class_70(code) THEN Val(expression.average_40)
    ELSE IF Class_80(code) THEN Val(expression.average_80)
    ELSE IF Class_90(code) THEN Val(expression.average_90)
    ELSE IF Class_100(code) THEN Val(expression.average_100)
    ELSE Null

\* the values _build_delta_emissivity_mapcalc formats into its expression
BuildDeltaEmissivityMapcalc ==
    [delta_10  |-> ComputeDeltaEmissivity("Cropland"),
     delta_20  |-> ComputeDeltaEmissivity("Forest"),
     delta_30  |-> ComputeDeltaEmissivity("Grasslands"),
     delta_40  |-> ComputeDeltaEmissivity("Shrublands"),
     delta_60  |-> ComputeDeltaEmissivity("Waterbodies"),
     delta_80  |-> ComputeDeltaEmissivity("Impervious"),
     delta_90  |-> ComputeDeltaEmissivity("Barren_Land"),
     delta_100 |-> ComputeDeltaEmissivity("Snow_and_ice")]

\* the nested if of the delta emissivity expression, on one cell
EvalDeltaEmissivity(expression, code) ==
    IF Class_10(code) THEN Val(expression.delta_10)
    ELSE IF Class_20(code) THEN Val(expression.delta_20)
    ELSE IF Class_30(code) THEN Val(expression.delta_30)
    ELSE IF Class_40(code) THEN Val(expression.delta_40)
    ELSE IF Class_50(code) THEN Val(expression.delta_60)
    ELSE IF Class_60(code) THEN Val(expression.delta_60)
    ELSE IF Class_70(code) THEN Val(expression.delta_40)
    ELSE IF Class_80(code) THEN Val(expression.delta_80)
    ELSE IF Class_90(code) THEN Val(expression.delta_90)
    ELSE IF Class_100(code) THEN Val(expression.delta_100)
    ELSE Null

-----------------------------------------------------------------------------
(* The split-window expression and its evaluation on one cell. *)

\* LST_FORMULA on one cell, in units of 1/400000 K:
\*   b0 + (b1 + b2 * (1 - ae) / ae + b3 * de / ae^2) * (t10 + t11) / 2
\*      + (b4 + b5 * (1 - ae) / ae + b6 * de / ae^2) * (t10 - t11) / 2
\*      + b7 * (t10 - t11)^2
\* with ae in units of 1/2000, de in units of 1/1000, b in hundredths
LstFormula(b, ae, de, ti, tj) ==
    LET q1 == ((2000 - ae) * 1000) \div ae
        q2 == (4000 * de * 1000) \div (ae * ae)
        x == b[2] * 1000 + b[3] * q1 + b[4] * q2
        y == b[5] * 1000 + b[6] * q1 + b[7] * q2
    IN 4000 * b[1] + 2 * x * (ti + tj) + 2 * y * (ti - tj)
         + 4000 * b[8] * (ti - tj) * (ti - tj)

\* a literal of the expression, or the name of a map (a DUMMY string)
Literal(v) == [dummy |-> FALSE, val |-> v]
Dummy == [dummy |-> TRUE, val |-> 0]

\* the formula of Range_6 built with the emissivity of band 10 alone
BuildSubrangeMapcalc_OwnEmissivity(class, subrange) ==
    [b  |-> RetrieveCwvCoefficients(class, subrange),
     ae |-> IF class = NoClass THEN Dummy
            ELSE IF subrange = "Range_6"
                 THEN Literal(2 * RetrieveAverageEmissivities(class)[1])
            ELSE Literal(ComputeAverageEmissivity(class)),
     de |-> IF class # NoClass
            THEN Literal(ComputeDeltaEmissivity(class)) ELSE Dummy]

\* _build_subrange_mapcalc: the formula of one subrange
BuildSubrangeMapcalc(class, subrange) ==
    [b  |-> RetrieveCwvCoefficients(class, subrange),
     ae |-> IF class # NoClass
            THEN Literal(ComputeAverageEmissivity(class)) ELSE Dummy,
     de |-> IF class # NoClass
            THEN Literal(ComputeDeltaEmissivity(class)) ELSE Dummy]

\* _build_swlst_mapcalc: sw_lst_1 .. sw_lst_6 and the limits of in_range_1..5
BuildSwlstMapcalc(class) ==
    [sw_lst |-> [key \in {RangeKeys[i] : i \in 1..6} |->
                    BuildSubrangeMapcalc(class, key)],
     limits |-> [key \in {RangeKeys[i] : i \in 1..5} |->
                    COLUMN_WATER_VAPOR[key].subrange]]

\* a map name put for a DUMMY string (replace_dummies), or the literal
Operand(term, map) == IF term.dummy THEN map ELSE Val(term.val)

\* sw_lst_<n> on one cell: null where an operand is null or ae is 0
EvalSubrange(formula, avg, delta, ti, tj) ==
    LET ae == Operand(formula.ae, avg)
        de == Operand(formula.de, delta)
    IN IF ae.null \/ de.null THEN Null
       ELSE IF ae.val = 0 THEN Null
       ELSE Val(LstFormula(formula.b, ae.val, de.val, ti, tj))

\* sw_lst_<mn> = (sw_lst_<m> + sw_lst_<n>) / 2
Average(a, b) ==
    IF a.null \/ b.null THEN Null ELSE Val((a.val + b.val) \div 2)

\* in_range_<n> = low_<n> <= cwv && cwv <= high_<n>
InRange_Closed(expression, key, column_water_vapor) ==
    /\ expression.limits[key][1] <= column_water_vapor
    /\ column_water_vapor <= expression.limits[key][2]

\* in_range_<n> = low_<n> < cwv && cwv < high_<n>
InRange(expression, key, column_water_vapor) ==
    /\ expression.limits[key][1] < column_water_vapor
    /\ column_water_vapor < expression.limits[key][2]

\* the nested if with the single subranges tested before the overlaps
SelectSwLst_SingleFirst(expression, column_water_vapor) ==
    LET in_range(n) == InRange(expression, RangeKeys[n], column_water_vapor)
    IN IF in_range(1) THEN <<1>>
       ELSE IF in_range(2) THEN <<2>>
       ELSE IF in_range(3) THEN <<3>>
       ELSE IF in_range(4) THEN <<4>>
       ELSE IF in_range(5) THEN <<5>>
       ELSE IF in_range(1) /\ in_range(2) THEN <<1, 2>>
       ELSE IF in_range(2) /\ in_range(3) THEN <<2, 3>>
       ELSE IF in_range(3) /\ in_range(4) THEN <<3, 4>>
       ELSE IF in_range(4) /\ in_range(5) THEN <<4, 5>>
       ELSE <<6>>

\* which sw_lst_* the nested if of the expression selects
SelectSwLst(expression, column_water_vapor) ==
    LET in_range(n) == InRange(expression, RangeKeys[n], column_water_vapor)
    IN IF in_range(1) /\ in_range(2) THEN <<1, 2>>
       ELSE IF in_range(2) /\ in_range(3) THEN <<2, 3>>
       ELSE IF in_range(3) /\ in_range(4) THEN <<3, 4>>
       ELSE IF in_range(4) /\ in_range(5) THEN <<4, 5>>
       ELSE IF in_range(1) THEN <<1>>
       ELSE IF in_range(2) THEN <<2>>
       ELSE IF in_range(3) THEN <<3>>
       ELSE IF in_range(4) THEN <<4>>
       ELSE IF in_range(5) THEN <<5>>
       ELSE <<6>>

\* the eval( ... ) ending in null() and not in sw_lst_6
EvalSwlst_NullFallback(expression, column_water_vapor, avg, delta, ti, tj) ==
    LET sw_lst(n) ==
            EvalSubrange(expression.sw_lst[RangeKeys[n]], avg, delta, ti, tj)
        selected == SelectSwLst(expression, column_water_vapor)
    IN IF Len(selected) = 2
       THEN Average(sw_lst(selected[1]), sw_lst(selected[2]))
       ELSE IF selected = <<6>> THEN Null
       ELSE sw_lst(selected[1])

\* the whole eval( ... ) on one cell
EvalSwlst(expression, column_water_vapor, avg, delta, ti, tj) ==
    LET sw_lst(n) ==
            EvalSubrange(expression.sw_lst[RangeKeys[n]], avg, delta, ti, tj)
        selected == SelectSwLst(expression, column_water_vapor)
    IN IF Len(selected) = 2
       THEN Average(sw_lst(selected[1]), sw_lst(selected[2]))
       ELSE sw_lst(selected[1])

-----------------------------------------------------------------------------
(* The state machine. *)

\* what SplitWindowLST( ) is called with: a class of the table, 'Random',
\* a name the table does not hold, or no class name (a land cover map)
LandcoverInputs == EmissivityKeys \cup {"Random", "cropland", ""}

Init ==
    /\ pc = "new"
    /\ landcover = ""
    /\ landcover_class = NoClass
    /\ emissivity_t10 = Null
    /\ emissivity_t11 = Null
    /\ average_emissivity = Null
    /\ delta_emissivity = Null
    /\ average_lse_mapcalc = Null
    /\ delta_lse_mapcalc = Null
    /\ sw_lst_mapcalc = Null
    /\ fromglc = Null
    /\ avg_lse = Null
    /\ delta_lse = Null
    /\ cwv = Null
    /\ t10 = Null
    /\ t11 = Null
    /\ lst = Null
    /\ subranges = Null
    /\ cwv_coefficients = Null
    /\ rmse = Null
    /\ cwv_subrange = Null
    /\ cwv_subrange_a = Null
    /\ cwv_subrange_b = Null
    /\ returned = Null
    /\ rounding = FALSE
    /\ celsius = FALSE
    /\ outname = Null
    /\ lst_args = Null
    /\ lst_error = "none"
    /\ cwv_pc = "new"
    /\ cwv_module = ""
    /\ window_size = Null
    /\ model_constants = Null
    /\ adjacent_pixels = Null
    /\ mean_ti_expression = Null
    /\ mean_tj_expression = Null
    /\ median_ti_expression = Null
    /\ median_tj_expression = Null
    /\ ratio_ji_expression = Null
    /\ cwv_expression = Null
    /\ scene = Null
    /\ ti_mean = Null
    /\ tj_mean = Null
    /\ ti_median = Null
    /\ tj_median = Null
    /\ rji = Null
    /\ cwv_estimate = Null
    /\ stage = "none"
    /\ run = "none"
    /\ asked = Null
    /\ rasters = {}
    /\ twin = Null

\* SplitWindowLST.__init__(landcover)
Construct(name) ==
    /\ pc = "new"
    /\ landcover' = name
    /\ IF name \in EmissivityKeys \/ name = "Random"
       THEN IF ~LandcoverStringValidity(name)
            THEN /\ pc' = "failed"
                 /\ UNCHANGED <<landcover_class, emissivity_t10,
                                emissivity_t11, average_emissivity,
                                delta_emissivity, sw_lst_mapcalc>>
            ELSE \E class \in RandomChoice(name) :
                    /\ pc' = "fixed"
                    /\ landcover_class' = class
                    /\ emissivity_t10' =
                           Val(RetrieveAverageEmissivities(class)[1])
                    /\ emissivity_t11' =
                           Val(RetrieveAverageEmissivities(class)[2])
                    /\ average_emissivity' =
                           Val(ComputeAverageEmissivity(class))
                    /\ delta_emissivity' = Val(ComputeDeltaEmissivity(class))
                    /\ sw_lst_mapcalc' = Val(BuildSwlstMapcalc(class))
            /\ UNCHANGED <<average_lse_mapcalc, delta_lse_mapcalc>>
       ELSE /\ pc' = "map"
            /\ landcover_class' = NoClass
            /\ average_lse_mapcalc' = Val(BuildAverageEmissivityMapcalc)
            /\ delta_lse_mapcalc' = Val(BuildDeltaEmissivityMapcalc)
            /\ sw_lst_mapcalc' = Val(BuildSwlstMapcalc(NoClass))
            /\ UNCHANGED <<emissivity_t10, emissivity_t11,
                           average_emissivity, delta_emissivity>>
    /\ UNCHANGED <<pixel, subranges, report, post, twin,
                   estimator, window>>

\* the emissivity expressions of a land cover map, run on one cell
EvaluateEmissivity(code) ==
    /\ pc = "map"
    /\ fromglc.null
    /\ fromglc' = Val(code)
    /\ avg_lse' = EvalAverageEmissivity(average_lse_mapcalc.val, code)
    /\ delta_lse' = EvalDeltaEmissivity(delta_lse_mapcalc.val, code)
    /\ cwv' = Null
    /\ t10' = Null
    /\ t11' = Null
    /\ lst' = Null
    /\ UNCHANGED <<object, subranges, report, post, twin,
                   estimator, window>>

\* round(x, step, start) of r.mapcalc: the nearest step * i + start
Round(x, step, start) ==
    (((x - start) * 2 + step) \div (2 * step)) * step + start

\* '(round(<expression>, 2, 0.5))' if rounding, then '(...) - 273.15' if
\* celsius, on one cell; in units of 1/400000 K
PostSteps(value, round_flag, celsius_flag) ==
    IF value.null THEN Null
    ELSE LET rounded == IF round_flag THEN Round(value.val, 800000, 200000)
                        ELSE value.val
         IN Val(IF celsius_flag THEN rounded - 109260000 ELSE rounded)

\* estimate_lst, on one cell.  The expression is completed from the land
\* cover map's emissivity maps if landcover_map is given, else left as it is
\* if landcover_class is given, else split_window_expression is never
\* bound and its first use is an UnboundLocalError.  An expression built
\* for a land cover map and not completed still reads the DUMMY maps, which
\* r.mapcalc does not find.
EstimateLst(landcover_map, class, column_water_vapor, ti, tj, rnd, cel) ==
    /\ \/ pc = "fixed"
       \/ pc = "map" /\ ~fromglc.null
    /\ cwv.null
    /\ lst_error = "none"
    /\ lst_args' = Val([landcover_map |-> landcover_map,
                        landcover_class |-> class])
    /\ rounding' = rnd
    /\ celsius' = cel
    /\ IF landcover_map = "" /\ class = ""
       THEN /\ lst_error' = "UnboundLocalError"
            /\ UNCHANGED <<cwv, t10, t11, lst, outname>>
       ELSE IF landcover_map = "" /\ pc = "map"
       THEN /\ lst_error' = "mapcalc"
            /\ UNCHANGED <<cwv, t10, t11, lst, outname>>
       ELSE /\ cwv' = Val(column_water_vapor)
            /\ t10' = Val(ti)
            /\ t11' = Val(tj)
            /\ lst' = EvalSwlst(sw_lst_mapcalc.val, column_water_vapor,
                                avg_lse, delta_lse, ti, tj)
            /\ outname' = PostSteps(lst', rnd, cel)
            /\ UNCHANGED lst_error
    /\ UNCHANGED <<object, fromglc, avg_lse, delta_lse, subranges, report,
                   estimator, window, twin>>

\* the land cover arguments that go with the object: the map for an object
\* built for a map, the class name for an object built for a class
MapOfObject == IF pc = "map" THEN "landcover_map" ELSE ""
ClassOfObject == IF pc = "fixed" THEN landcover_class ELSE ""

\* the next cell of the region: r.mapcalc runs the expressions cell by cell
NextCell ==
    /\ ~cwv.null
    /\ fromglc' = Null
    /\ avg_lse' = Null
    /\ delta_lse' = Null
    /\ cwv' = Null
    /\ t10' = Null
    /\ t11' = Null
    /\ lst' = Null
    /\ subranges' = Null
    /\ rounding' = FALSE
    /\ celsius' = FALSE
    /\ outname' = Null
    /\ lst_args' = Null
    /\ UNCHANGED <<lst_error, object, report, estimator, window, twin>>

\* a call of _retrieve_adjacent_cwv_subranges with the cell's cwv
RetrieveAdjacent ==
    /\ ~cwv.null
    /\ subranges.null
    /\ IF CheckCwv(cwv.val)
       THEN subranges' = Val(RetrieveAdjacentCwvSubranges(cwv.val))
       ELSE subranges' = Null
    /\ UNCHANGED <<object, pixel, report, post, twin,
                   estimator, window>>

Next ==
    \/ \E name \in LandcoverInputs : Construct(name)
    \/ \E code \in LandcoverCodes : EvaluateEmissivity(code)
    \/ \E column_water_vapor \in CwvValues, ti \in T10Values, tj \in T11Values,
          round_flag \in BOOLEAN, celsius_flag \in BOOLEAN :
          EstimateLst(MapOfObject, ClassOfObject, column_water_vapor, ti, tj,
                      round_flag, celsius_flag)
    \/ RetrieveAdjacent
    \/ NextCell

Spec == Init /\ [][Next]_vars

-----------------------------------------------------------------------------
(* The methods called on a constructed object. *)

\* what a call returned, or the error it raised
Returns(method, value) ==
    Val([call |-> method, error |-> "none", value |-> value])
Raises(method, error) ==
    Val([call |-> method, error |-> error, value |-> <<>>])

\* len( ) and [0] of a key of COLUMN_WATER_VAPOR: 'Range_1' .. 'Range_6'
StrLen(key) == 7
FirstCharacter(key) == "R"

\* _retrieve_rmse
RetrieveRmse(subrange) == COLUMN_WATER_VAPOR[subrange].rmse

\* _set_cwv_coefficients(subrange)
SetCwvCoefficients(subrange) ==
    /\ pc \in {"fixed", "map"}
    /\ cwv_coefficients' =
           Val(RetrieveCwvCoefficients(landcover_class, subrange))
    /\ returned' = Returns("_set_cwv_coefficients", <<>>)
    /\ UNCHANGED <<object, pixel, subranges, rmse, stored, post, twin,
                   estimator, window>>

\* _set_rmse(subrange)
SetRmse(subrange) ==
    /\ pc \in {"fixed", "map"}
    /\ rmse' = Val(RetrieveRmse(subrange))
    /\ returned' = Returns("_set_rmse", <<>>)
    /\ UNCHANGED <<object, pixel, subranges, cwv_coefficients, stored,
                   post, twin, estimator, window>>

\* get_cwv_coefficients( ): the attribute exists only once it has been set
GetCwvCoefficients ==
    /\ pc \in {"fixed", "map"}
    /\ returned' = IF cwv_coefficients.null
                   THEN Raises("get_cwv_coefficients", "AttributeError")
                   ELSE Returns("get_cwv_coefficients", cwv_coefficients.val)
    /\ UNCHANGED <<object, pixel, subranges, cwv_coefficients, rmse,
                   stored, post, twin, estimator, window>>

\* report_rmse( ): "Associated RMSE: " + str(self.rmse)
ReportRmse ==
    /\ pc \in {"fixed", "map"}
    /\ returned' = IF rmse.null
                   THEN Raises("report_rmse", "AttributeError")
                   ELSE Returns("report_rmse", <<rmse.val>>)
    /\ UNCHANGED <<object, pixel, subranges, cwv_coefficients, rmse,
                   stored, post, twin, estimator, window>>

\* _set_adjacent_cwv_subranges(column_water_vapor): len(result) of a single
\* subrange is the length of its name, 7, so neither branch is taken
SetAdjacentCwvSubranges(column_water_vapor) ==
    /\ pc \in {"fixed", "map"}
    /\ CheckCwv(column_water_vapor)
    /\ LET result == RetrieveAdjacentCwvSubranges(column_water_vapor)
           length == IF result.type = "str" THEN StrLen(result.keys[1])
                     ELSE Len(result.keys)
       IN IF length = 1
          THEN /\ cwv_subrange' = Val(FirstCharacter(result.keys[1]))
               /\ cwv_subrange_a' = Val("False")
               /\ cwv_subrange_b' = Val("False")
          ELSE IF length = 2
          THEN /\ cwv_subrange' = Val("False")
               /\ cwv_subrange_a' = Val(result.keys[1])
               /\ cwv_subrange_b' = Val(result.keys[2])
          ELSE UNCHANGED stored
    /\ returned' = Returns("_set_adjacent_cwv_subranges", <<>>)
    /\ UNCHANGED <<object, pixel, subranges, cwv_coefficients, rmse,
                   post, twin, estimator, window>>

\* _retrieve_average_emissivities(self.landcover_class), as the calls of
\* _compute_average_emissivity and _compute_delta_emissivity by
\* _build_subrange_mapcalc make it: a class named 'Random' is drawn again
RetrieveAgain ==
    /\ pc = "fixed"
    /\ \E class \in RandomChoice(landcover_class) : landcover_class' = class
    /\ UNCHANGED <<pc, landcover, emissivity_t10, emissivity_t11,
                   average_emissivity, delta_emissivity, average_lse_mapcalc,
                   delta_lse_mapcalc, sw_lst_mapcalc, pixel, subranges,
                   report, post, twin,
                   estimator, window>>

\* column water vapor inside each subrange and each overlap, at the limits
\* of the first subrange, and outside the domain
StoredCwvValues == {-1, 0, 10, 20, 22, 25, 27, 32, 37, 42, 47, 52, 57, 64}

NextObject ==
    \/ \E name \in LandcoverInputs : Construct(name)
    \/ \E key \in DOMAIN COLUMN_WATER_VAPOR : SetCwvCoefficients(key)
    \/ \E key \in DOMAIN COLUMN_WATER_VAPOR : SetRmse(key)
    \/ GetCwvCoefficients
    \/ ReportRmse
    \/ \E column_water_vapor \in StoredCwvValues :
          SetAdjacentCwvSubranges(column_water_vapor)
    \/ RetrieveAgain

SpecObject == Init /\ [][NextObject]_vars

-----------------------------------------------------------------------------
(* estimate_lst called with any land cover arguments on any object. *)

\* the land cover map and class name estimate_lst may be called with
LandcoverMaps == {"", "landcover_map"}
LandcoverClasses == {"", "Forest", "Barren_Land"}

\* the objects, land cover codes and column water vapor it is called on
ConfiguredInputs == {"Forest", "Barren_Land", ""}
ConfiguredCodes == {0, 15, 25, 52, 95}
ConfiguredCwvValues == {10, 22, 64}

NextConfigured ==
    \/ \E name \in ConfiguredInputs : Construct(name)
    \/ \E code \in ConfiguredCodes : EvaluateEmissivity(code)
    \/ \E landcover_map \in LandcoverMaps, class \in LandcoverClasses,
          column_water_vapor \in ConfiguredCwvValues, ti \in T10Values,
          tj \in T11Values :
          EstimateLst(landcover_map, class, column_water_vapor, ti, tj,
                      FALSE, FALSE)
    \/ NextCell

SpecConfigured == Init /\ [][NextConfigured]_vars

-----------------------------------------------------------------------------
(* The subranges of a cell selected twice: by the expression that *)
(* estimate_lst runs and by _retrieve_adjacent_cwv_subranges, for every   *)
(* column water vapor.                                                      *)

NextSelection ==
    \/ \E name \in ConfiguredInputs : Construct(name)
    \/ \E code \in ConfiguredCodes : EvaluateEmissivity(code)
    \/ \E column_water_vapor \in CwvValues, ti \in T10Values,
          tj \in T11Values :
          EstimateLst(MapOfObject, ClassOfObject, column_water_vapor, ti, tj,
                      FALSE, FALSE)
    \/ RetrieveAdjacent
    \/ NextCell

SpecSelection == Init /\ [][NextSelection]_vars

-----------------------------------------------------------------------------
(* The column water vapor estimator: Column_Water_Vapor of                 *)
(* column_water_vapor.py and the older Column_Water_Vapour of              *)
(* column_water_vapour.py.  The model constants are held in thousandths.   *)

\* window sizes run from 0 to MaxWindow
MaxWindow == 10
WindowSizes == 0 .. MaxWindow
\* window_size = 3 of i.landsat.swlst.py, the caller of the older class
OlderWindowSizes == {3}

\* range(a, b) of python, as a sequence
Range(a, b) == [i \in 1 .. (IF b > a THEN b - a ELSE 0) |-> a + i - 1]

\* [[col, row] for col in cols for row in rows]
Pairs(cols, rows) ==
    [k \in 1 .. (Len(cols) * Len(rows)) |->
        <<cols[((k - 1) \div Len(rows)) + 1], rows[((k - 1) % Len(rows)) + 1]>>]

\* the window taken whole: range(-half, half + 1)
DeriveAdjacentPixels_WholeWindow(size) ==
    LET half_height == (size - 1) \div 2
        half_width == (size - 1) \div 2
    IN Pairs(Range(0 - half_width, half_width + 1),
             Range(0 - half_height, half_height + 1))

\* Column_Water_Vapor._derive_adjacent_pixels
DeriveAdjacentPixels(size) ==
    LET half_height == (size - 1) \div 2
        half_width == (size - 1) \div 2
    IN Pairs(Range(1 - half_width, half_width),
             Range(1 - half_height, half_height))

\* Column_Water_Vapour._derive_adjacent_pixels (older class)
DeriveAdjacentPixelsOlder(size) ==
    LET cols == [i \in 1 .. size |-> i - 2]
        rows == [i \in 1 .. size |-> i - 2]
    IN Pairs(cols, rows)

\* _mean_tirs_expression: (sum of the modifiers) / len(modifiers)
MeanTirsExpression(map, modifiers) ==
    [map |-> map, modifiers |-> modifiers, length |-> Len(modifiers)]

\* _median_tirs_expression: median(modifiers)
MedianTirsExpression(map, modifiers) ==
    [map |-> map, modifiers |-> modifiers]

\* the two asserts of Column_Water_Vapor.__init__
WindowAccepted(size) == size % 2 # 0 /\ size >= 7

\* Column_Water_Vapor.__init__(window_size, ti, tj)
ConstructCwv(size) ==
    /\ cwv_pc = "new"
    /\ cwv_module' = "column_water_vapor"
    /\ window_size' = Val(size)
    /\ model_constants' = Val([c0 |-> 9087, c1 |-> 653, c2 |-> -9674])
    /\ IF ~WindowAccepted(size)
       THEN /\ cwv_pc' = "failed"
            /\ UNCHANGED <<adjacent_pixels, mean_ti_expression,
                           mean_tj_expression, median_ti_expression,
                           median_tj_expression>>
       ELSE LET pixels == DeriveAdjacentPixels(size) IN
            /\ cwv_pc' = "built"
            /\ adjacent_pixels' = Val(pixels)
            /\ mean_ti_expression' = Val(MeanTirsExpression("ti", pixels))
            /\ mean_tj_expression' = Val(MeanTirsExpression("tj", pixels))
            /\ median_ti_expression' = Val(MedianTirsExpression("ti", pixels))
            /\ median_tj_expression' = Val(MedianTirsExpression("tj", pixels))
    /\ UNCHANGED <<ratio_ji_expression, cwv_expression, window, object,
                   pixel, subranges, report, post, twin>>

\* Column_Water_Vapour._ratio_ji_expression and, with 'mean',
\* Column_Water_Vapor._ratio_ji_expression: the means are DUMMY strings
RatioJiExpression(modifiers) ==
    [statistic |-> "mean", modifiers |-> modifiers]

\* Column_Water_Vapour.__init__(window_size, ti, tj) (older class)
ConstructOlder(size) ==
    /\ cwv_pc = "new"
    /\ cwv_module' = "column_water_vapour"
    /\ window_size' = Val(size)
    /\ model_constants' = Val([c0 |-> -9674, c1 |-> 653, c2 |-> 9087])
    /\ LET pixels == DeriveAdjacentPixelsOlder(size) IN
       /\ cwv_pc' = "built"
       /\ adjacent_pixels' = Val(pixels)
       /\ mean_ti_expression' = Val(MeanTirsExpression("ti", pixels))
       /\ mean_tj_expression' = Val(MeanTirsExpression("tj", pixels))
       /\ ratio_ji_expression' = Val(RatioJiExpression(pixels))
    /\ cwv_expression' = model_constants'
    /\ UNCHANGED <<median_ti_expression, median_tj_expression, window,
                   object, pixel, subranges, report, post, twin>>

-----------------------------------------------------------------------------
(* The estimator's expressions on one cell.  A neighbourhood is a scene:   *)
(* ti = 290 + slope_i * dx and tj = base_j + slope_j * dx at the offset    *)
(* [dx, dy], with no-data at no offset, at the offset [1, 0], at every     *)
(* offset with dx >= 2 (the cell is near the border), or everywhere.       *)
(* Values are exact fractions, standing for the floating point of          *)
(* r.mapcalc; an operation of r.mapcalc on a null operand, and a division  *)
(* by zero, give null.                                                     *)

Scenes ==
    [slope_i : 0 .. 2, slope_j : 0 .. 2, base_j : {285, 290},
     nodata : {"none", "one", "edge", "all"}]

Sample(sc, map, offset) ==
    IF \/ sc.nodata = "all"
       \/ sc.nodata = "one" /\ offset = <<1, 0>>
       \/ sc.nodata = "edge" /\ offset[1] >= 2
    THEN Null
    ELSE IF map = "ti" THEN Val(290 + sc.slope_i * offset[1])
    ELSE Val(sc.base_j + sc.slope_j * offset[1])

Samples(sc, map, modifiers) ==
    [k \in 1 .. Len(modifiers) |-> Sample(sc, map, modifiers[k])]

AnyNull(samples) == \E k \in 1 .. Len(samples) : samples[k].null

Abs(x) == IF x < 0 THEN 0 - x ELSE x

RECURSIVE Gcd(_, _)
Gcd(a, b) == IF b = 0 THEN a ELSE Gcd(b, a % b)

\* n / d in lowest terms, d # 0
Frac(n, d) ==
    LET g == Gcd(Abs(n), Abs(d))
        sign == IF d < 0 THEN 0 - 1 ELSE 1
    IN [num |-> (sign * n) \div g, den |-> (sign * d) \div g]

RECURSIVE SumSeq(_)
SumSeq(q) == IF q = <<>> THEN 0 ELSE Head(q) + SumSeq(Tail(q))

\* (m1 + m2 + ... ) / length on one cell
EvalMean(expression, sc) ==
    LET samples == Samples(sc, expression.map, expression.modifiers) IN
    IF AnyNull(samples) \/ expression.length = 0 THEN Null
    ELSE Val(Frac(SumSeq([k \in 1 .. Len(samples) |-> samples[k].val]),
                  expression.length))

\* median(m1, m2, ... ) on one cell: null if an argument is null
EvalMedian(expression, sc) ==
    LET samples == Samples(sc, expression.map, expression.modifiers)
        n == Len(samples)
        Kth(k) ==
            CHOOSE m \in {samples[i].val : i \in 1 .. n} :
                /\ Cardinality({i \in 1 .. n : samples[i].val < m}) < k
                /\ Cardinality({i \in 1 .. n : samples[i].val <= m}) >= k
    IN IF AnyNull(samples) \/ n = 0 THEN Null
       ELSE Val(Frac(Kth((n + 1) \div 2) + Kth((n \div 2) + 1), 2))

\* the ratio with a division by zero giving 0
EvalRatioJi_ZeroForZero(expression, sc, ti_m, tj_m) ==
    LET si == Samples(sc, "ti", expression.modifiers)
        sj == Samples(sc, "tj", expression.modifiers)
        a == ti_m.val.num
        b == ti_m.val.den
        c == tj_m.val.num
        d == tj_m.val.den
        numerator == SumSeq([k \in 1 .. Len(si) |->
                        (b * si[k].val - a) * (d * sj[k].val - c)])
        denominator == SumSeq([k \in 1 .. Len(si) |->
                        (b * si[k].val - a) * (b * si[k].val - a)])
    IN IF ti_m.null \/ tj_m.null \/ AnyNull(si) \/ AnyNull(sj) THEN Null
       ELSE IF denominator = 0 THEN Val(Frac(0, 1))
       ELSE Val(Frac(numerator * b, d * denominator))

\* ( sum (Ti - Tim) * (Tj - Tjm) ) / ( sum (Ti - Tim)^2 ) on one cell, the
\* means Tim = a / b and Tjm = c / d being the cell's values of the mean maps
EvalRatioJi(expression, sc, ti_m, tj_m) ==
    LET si == Samples(sc, "ti", expression.modifiers)
        sj == Samples(sc, "tj", expression.modifiers)
        a == ti_m.val.num
        b == ti_m.val.den
        c == tj_m.val.num
        d == tj_m.val.den
        numerator == SumSeq([k \in 1 .. Len(si) |->
                        (b * si[k].val - a) * (d * sj[k].val - c)])
        denominator == SumSeq([k \in 1 .. Len(si) |->
                        (b * si[k].val - a) * (b * si[k].val - a)])
    IN IF ti_m.null \/ tj_m.null \/ AnyNull(si) \/ AnyNull(sj) THEN Null
       ELSE IF denominator = 0 THEN Null
       ELSE Val(Frac(numerator * b, d * denominator))

\* (c0) + (c1) * (Rji) + (c2) * (Rji)^2 on one cell, in thousandths
EvalCwv(expression, ratio) ==
    IF ratio.null THEN Null
    ELSE LET p == ratio.val.num
             q == ratio.val.den
         IN Val(Frac(expression.c0 * q * q + expression.c1 * p * q
                       + expression.c2 * p * p, q * q))

-----------------------------------------------------------------------------
(* The estimator's state machine. *)

\* the statistics expressions of the object, run on one cell
\* (get_cwv_window_means of the main script)
WindowStatistics(sc) ==
    /\ cwv_pc = "built"
    /\ stage = "none"
    /\ scene' = Val(sc)
    /\ ti_mean' = EvalMean(mean_ti_expression.val, sc)
    /\ tj_mean' = EvalMean(mean_tj_expression.val, sc)
    /\ ti_median' = IF median_ti_expression.null THEN Null
                    ELSE EvalMedian(median_ti_expression.val, sc)
    /\ tj_median' = IF median_tj_expression.null THEN Null
                    ELSE EvalMedian(median_tj_expression.val, sc)
    /\ stage' = "means"
    /\ UNCHANGED <<rji, cwv_estimate, call, estimator, object, pixel,
                   subranges, report, post, twin>>

\* Column_Water_Vapor._ratio_ji_expression(statistic): DUMMY_Ti_MEDIAN and
\* DUMMY_Tj_MEDIAN are names the module does not define
BuildRatioJi(statistic) ==
    /\ cwv_pc = "built"
    /\ cwv_module = "column_water_vapor"
    /\ ratio_ji_expression.null
    /\ run = "none"
    /\ IF statistic = "median"
       THEN /\ run' = "NameError"
            /\ UNCHANGED ratio_ji_expression
       ELSE /\ ratio_ji_expression' =
                   Val(RatioJiExpression(adjacent_pixels.val))
            /\ UNCHANGED run
    /\ UNCHANGED <<cwv_pc, cwv_module, window_size, model_constants,
                   adjacent_pixels, mean_ti_expression, mean_tj_expression,
                   median_ti_expression, median_tj_expression,
                   cwv_expression, cell, object, pixel, subranges, report,
                   post, twin, asked, rasters>>

\* the ratio expression, its DUMMY strings replaced by the mean maps, run on
\* one cell (estimate_ratio_ji of the main script)
EstimateRatioJi ==
    /\ stage = "means"
    /\ ~ratio_ji_expression.null
    /\ rji' = EvalRatioJi(ratio_ji_expression.val, scene.val, ti_mean, tj_mean)
    /\ stage' = "ratio"
    /\ UNCHANGED <<scene, ti_mean, tj_mean, ti_median, tj_median,
                   cwv_estimate, call, estimator, object, pixel, subranges,
                   report, post, twin>>

\* the column water vapour expression, its DUMMY string replaced by the
\* ratio map, run on one cell (estimate_column_water_vapor of the main script)
EstimateColumnWaterVapor ==
    /\ stage = "ratio"
    /\ ~cwv_expression.null
    /\ cwv_estimate' = EvalCwv(cwv_expression.val, rji)
    /\ stage' = "cwv"
    /\ UNCHANGED <<scene, ti_mean, tj_mean, ti_median, tj_median, rji, call,
                   estimator, object, pixel, subranges, report, post, twin>>

\* the next cell of the region
NextWindow ==
    /\ stage # "none"
    /\ scene' = Null
    /\ ti_mean' = Null
    /\ tj_mean' = Null
    /\ ti_median' = Null
    /\ tj_median' = Null
    /\ rji' = Null
    /\ cwv_estimate' = Null
    /\ stage' = "none"
    /\ UNCHANGED <<call, estimator, object, pixel, subranges, report, post,
                   twin>>

\* estimate_cwv, its Column_Water_Vapor( ) constructed: the call of
\* _big_cwv_expression_mean or _big_cwv_expression_median passes
\* _numerator_for_ratio(ti_m, tj_m) the keywords mean_ti, mean_tj or
\* median_ti, median_tj, which is a TypeError, before grass.mapcalc is run
EstimateCwv(median, cwv_map) ==
    /\ cwv_pc = "built"
    /\ cwv_module = "column_water_vapor"
    /\ stage = "none"
    /\ run = "none"
    /\ twin = Null
    /\ asked' = Val([median |-> median, cwv_map |-> cwv_map])
    /\ run' = "TypeError"
    /\ UNCHANGED <<rasters, cell, estimator, object, pixel, subranges, report,
                   post, twin>>

NextCwv ==
    \/ \E size \in WindowSizes : ConstructCwv(size)
    \/ \E size \in OlderWindowSizes : ConstructOlder(size)
    \/ \E sc \in Scenes : WindowStatistics(sc)
    \/ \E statistic \in {"mean", "median"} : BuildRatioJi(statistic)
    \/ EstimateRatioJi
    \/ EstimateColumnWaterVapor
    \/ NextWindow
    \/ \E median \in BOOLEAN, cwv_map \in {"", "cwv_map"} :
          EstimateCwv(median, cwv_map)

SpecCwv == Init /\ [][NextCwv]_vars

-----------------------------------------------------------------------------
(* The pipeline run twice on the same inputs: the estimator is constructed, *)
(* then the split-window object, then a cell is worked; the outcome is put  *)
(* aside and the pipeline is run again from the start.                      *)

\* the inputs, and all that a run of the pipeline has produced
Outcome ==
    [landcover |-> landcover, cwv_module |-> cwv_module,
     window_size |-> window_size, fromglc |-> fromglc, cwv |-> cwv,
     t10 |-> t10, t11 |-> t11,
     pc |-> pc, landcover_class |-> landcover_class,
     emissivity_t10 |-> emissivity_t10, emissivity_t11 |-> emissivity_t11,
     average_emissivity |-> average_emissivity,
     delta_emissivity |-> delta_emissivity,
     average_lse_mapcalc |-> average_lse_mapcalc,
     delta_lse_mapcalc |-> delta_lse_mapcalc,
     sw_lst_mapcalc |-> sw_lst_mapcalc,
     avg_lse |-> avg_lse, delta_lse |-> delta_lse, lst |-> lst,
     subranges |-> subranges,
     cwv_pc |-> cwv_pc, model_constants |-> model_constants,
     adjacent_pixels |-> adjacent_pixels,
     mean_ti_expression |-> mean_ti_expression,
     mean_tj_expression |-> mean_tj_expression,
     median_ti_expression |-> median_ti_expression,
     median_tj_expression |-> median_tj_expression]

\* a run has ended: the estimator refused its window size, or the cell's
\* land surface temperature and subranges are there
Finished == cwv_pc = "failed" \/ ~subranges.null

\* the run's outcome is put aside and the pipeline starts again
RunAgain ==
    /\ Finished
    /\ twin.null
    /\ twin' = Val(Outcome)
    /\ pc' = "new"
    /\ landcover' = ""
    /\ landcover_class' = NoClass
    /\ emissivity_t10' = Null
    /\ emissivity_t11' = Null
    /\ average_emissivity' = Null
    /\ delta_emissivity' = Null
    /\ average_lse_mapcalc' = Null
    /\ delta_lse_mapcalc' = Null
    /\ sw_lst_mapcalc' = Null
    /\ fromglc' = Null
    /\ avg_lse' = Null
    /\ delta_lse' = Null
    /\ cwv' = Null
    /\ t10' = Null
    /\ t11' = Null
    /\ lst' = Null
    /\ outname' = Null
    /\ lst_args' = Null
    /\ subranges' = Null
    /\ cwv_pc' = "new"
    /\ cwv_module' = ""
    /\ window_size' = Null
    /\ model_constants' = Null
    /\ adjacent_pixels' = Null
    /\ mean_ti_expression' = Null
    /\ mean_tj_expression' = Null
    /\ median_ti_expression' = Null
    /\ median_tj_expression' = Null
    /\ ratio_ji_expression' = Null
    /\ cwv_expression' = Null
    /\ UNCHANGED <<report, rounding, celsius, lst_error, window>>

\* the column water vapor, land cover codes and temperature of the cell
\* the pipeline is run twice on
TwiceCwvValues == {-1, 0, 10, 22, 25, 40, 63, 64}
TwiceCodes == {0, 15, 51, 70}
TwiceT10Values == {300}

\* on the second run, the input is the one of the first run
Repeats(field, value) ==
    IF twin.null THEN TRUE ELSE twin.val[field] = value

NextTwice ==
    \/ \E size \in WindowSizes :
          /\ Repeats("cwv_module", "column_water_vapor")
          /\ Repeats("window_size", Val(size))
          /\ ConstructCwv(size)
    \/ \E size \in OlderWindowSizes :
          /\ Repeats("cwv_module", "column_water_vapour")
          /\ Repeats("window_size", Val(size))
          /\ ConstructOlder(size)
    \/ \E name \in LandcoverInputs :
          /\ cwv_pc = "built"
          /\ Repeats("landcover", name)
          /\ Construct(name)
    \/ \E code \in TwiceCodes :
          /\ Repeats("fromglc", Val(code))
          /\ EvaluateEmissivity(code)
    \/ \E column_water_vapor \in TwiceCwvValues, ti \in TwiceT10Values,
          tj \in T11Values :
          /\ Repeats("cwv", Val(column_water_vapor))
          /\ Repeats("t10", Val(ti))
          /\ Repeats("t11", Val(tj))
          /\ EstimateLst(MapOfObject, ClassOfObject, column_water_vapor,
                         ti, tj, FALSE, FALSE)
    \/ RetrieveAdjacent
    \/ RunAgain

SpecTwice == Init /\ [][NextTwice]_vars

-----------------------------------------------------------------------------
(* What the properties below are stated with: read off the tables and the  *)
(* cell, not off the expressions the object built.                         *)

\* subrange number n of the table holds c strictly inside its bounds
Matches(n, c) ==
    /\ COLUMN_WATER_VAPOR[RangeKeys[n]].subrange[1] < c
    /\ c < COLUMN_WATER_VAPOR[RangeKeys[n]].subrange[2]

\* the subranges 1..5 that hold c
MatchSet(c) == {n \in 1..5 : Matches(n, c)}

\* the cell's average and delta emissivity: the class's, or the maps'
CellAverage ==
    IF pc = "fixed"
    THEN Val(EMISSIVITIES[landcover_class].TIRS10
               + EMISSIVITIES[landcover_class].TIRS11)
    ELSE avg_lse

CellDelta ==
    IF pc = "fixed"
    THEN Val(EMISSIVITIES[landcover_class].TIRS10
               - EMISSIVITIES[landcover_class].TIRS11)
    ELSE delta_lse

\* the cell has an emissivity the regression can be evaluated with
CellDefined == ~CellAverage.null /\ ~CellDelta.null /\ CellAverage.val # 0

\* b0..b7 of subrange n for the object's class, off the table
TableCoefficients(n) ==
    [i \in 1..8 |->
        IF i = 8 /\ landcover_class # "Barren_Land" THEN 0
        ELSE COLUMN_WATER_VAPOR[RangeKeys[n]].b[i]]

\* the regression of subrange n alone on the estimated cell
Regression(n) ==
    LstFormula(TableCoefficients(n), CellAverage.val, CellDelta.val,
               t10.val, t11.val)

\* the cell's land surface temperature has been estimated
Estimated == ~cwv.null

-----------------------------------------------------------------------------
(* The properties. *)

\* C1: a cell whose cwv lies in the overlap of two adjacent subranges r and
\* r+1 gets the arithmetic mean of the regression evaluated with the
\* coefficients of r and of r+1, never the result of a single subrange.
C1_OverlapIsMean ==
    \A r \in 1..4 :
        (Estimated /\ Matches(r, cwv.val) /\ Matches(r + 1, cwv.val))
            => IF CellDefined
               THEN ~lst.null /\ 2 * lst.val = Regression(r) + Regression(r + 1)
               ELSE lst.null

C1_Witness ==
    /\ Estimated /\ cwv.val = 22 /\ CellDefined /\ ~lst.null
    /\ 2 * lst.val = Regression(1) + Regression(2)
    /\ lst.val # Regression(1)
    /\ lst.val # Regression(2)

\* C2: a cell whose cwv lies in exactly one of the subranges 1..5 (the
\* bounds of a neighbouring subrange, such as 2.0 and 2.5, included) gets
\* one evaluation of the regression with that subrange's coefficients.
C2_SingleIsSingle ==
    \A r \in 1..5 :
        (Estimated /\ MatchSet(cwv.val) = {r})
            => IF CellDefined
               THEN ~lst.null /\ lst.val = Regression(r)
               ELSE lst.null

C2_Witness ==
    /\ Estimated /\ cwv.val = 25 /\ CellDefined /\ ~lst.null
    /\ MatchSet(cwv.val) = {2}
    /\ lst.val = Regression(2)
    /\ 2 * lst.val # Regression(1) + Regression(2)

C4_OneOrAdjacentPair ==
    (Estimated /\ ~subranges.null)
        => LET m == MatchSet(cwv.val) IN
           \/ /\ m = {}
              /\ subranges.val = [type |-> "str", keys |-> <<"Range_6">>]
           \/ \E r \in 1..5 :
                 /\ m = {r}
                 /\ subranges.val = [type |-> "str", keys |-> <<RangeKeys[r]>>]
           \/ \E r \in 1..4 :
                 /\ m = {r, r + 1}
                 /\ subranges.val =
                        [type |-> "tuple",
                         keys |-> <<RangeKeys[r], RangeKeys[r + 1]>>]

C4_Witness ==
    /\ Estimated /\ ~subranges.null
    /\ MatchSet(cwv.val) = {3, 4}
    /\ subranges.val = [type |-> "tuple", keys |-> <<"Range_3", "Range_4">>]

WithoutB7(expression) ==
    [expression EXCEPT !.sw_lst =
        [key \in DOMAIN expression.sw_lst |->
            [expression.sw_lst[key] EXCEPT !.b[8] = 0]]]

C7_UnknownClassFails ==
    (pc # "new" /\ landcover \notin EmissivityKeys \cup {"Random", ""})
        => /\ pc = "failed"
           /\ sw_lst_mapcalc.null
           /\ average_lse_mapcalc.null
           /\ delta_lse_mapcalc.null

\* the classes whose predicate of the emissivity expressions holds for code
ClassesOf(code) == {name \in FromGlcLegendKeys : ClassPredicate(name, code)}

\* C8, as claimed: for every land cover code at most one of the predicates
\* class_10 .. class_100 holds, the codes 51, 52, 71 and 72 included.
C8_PredicatesDisjoint ==
    ~fromglc.null => Cardinality(ClassesOf(fromglc.val)) <= 1

\* the class the documented mapping gives a code, as C9 lists it
DocumentedClass(code) ==
    CASE code \in 10..19 -> "Cropland"
      [] code \in 20..29 -> "Forest"
      [] code \in 30..39 \/ code = 72 -> "Grasslands"
      [] code \in 40..49 -> "Shrublands"
      [] code = 50 -> "Wetlands"
      [] code \in 60..69 -> "Waterbodies"
      [] code = 70 -> "Tundra"
      [] code \in 80..89 -> "Impervious"
      [] code \in 90..99 \/ code = 52 -> "Barren_Land"
      [] code \in 100..119 -> "Snow_and_ice"
      [] OTHER -> "none"

\* C9, as claimed: for every code the documented mapping gives a class, the
\* cell's average and delta emissivity are those of that class's own entry
\* of the emissivity table.
C9_EmissivityOfDocumentedClass ==
    (~fromglc.null /\ DocumentedClass(fromglc.val) # "none")
        => LET entry == EMISSIVITIES[DocumentedClass(fromglc.val)] IN
           /\ ~avg_lse.null /\ avg_lse.val = entry.TIRS10 + entry.TIRS11
           /\ ~delta_lse.null /\ delta_lse.val = entry.TIRS10 - entry.TIRS11

\* C10: a cell whose land cover code is below 10 or at or above 120 (the
\* cloud code 120 included), or holds for none of the ten class predicates,
\* gets null for the average and for the delta emissivity; the object stays
\* in land cover map mode.
C10_UnclassifiedIsNull ==
    (/\ ~fromglc.null
     /\ \/ fromglc.val < 10
        \/ fromglc.val >= 120
        \/ ClassesOf(fromglc.val) = {})
        => avg_lse.null /\ delta_lse.null /\ pc = "map"

C10_Witness ==
    /\ ~fromglc.null /\ fromglc.val = 120
    /\ ClassesOf(fromglc.val) = {}
    /\ avg_lse.null /\ delta_lse.null /\ pc = "map"

OffsetSet(n) ==
    {<<dx, dy>> \in ((0 - n) .. n) \X ((0 - n) .. n) :
        /\ 0 - (n \div 2) < dx /\ dx < n \div 2
        /\ 0 - (n \div 2) < dy /\ dy < n \div 2}

\* the estimator of column_water_vapor.py has been constructed, or refused
Constructed ==
    cwv_pc # "new" /\ cwv_module = "column_water_vapor"

\* C12, as claimed: the estimator accepts a window size exactly when it is
\* odd and greater than 1 (3 and 5 included); a window size it does not
\* accept is rejected before neighbour offsets or expressions are derived.
C12_AcceptsOddAboveOne ==
    Constructed
        => /\ cwv_pc = "built"
                <=> (window_size.val % 2 = 1 /\ window_size.val > 1)
           /\ cwv_pc = "failed"
                => /\ adjacent_pixels.null
                   /\ mean_ti_expression.null /\ mean_tj_expression.null
                   /\ median_ti_expression.null /\ median_tj_expression.null

Same(x, y) == x.null = y.null /\ (~x.null => x.val = y.val)

\* the values of the cell's neighbours on a map that are not no-data
ValidValues(map) ==
    LET samples == Samples(scene.val, map, adjacent_pixels.val)
        valid == SelectSeq(samples, LAMBDA x : ~x.null)
    IN [k \in 1 .. Len(valid) |-> valid[k].val]

\* the mean of a sequence of values, null for none
MeanOf(values) ==
    IF values = <<>> THEN Null
    ELSE Val(Frac(SumSeq(values), Len(values)))

\* the median of a sequence of values, null for none
MedianOf(values) ==
    LET n == Len(values)
        AtRank(k) ==
            CHOOSE m \in {values[i] : i \in 1 .. n} :
                /\ Cardinality({i \in 1 .. n : values[i] < m}) < k
                /\ Cardinality({i \in 1 .. n : values[i] <= m}) >= k
    IN IF n = 0 THEN Null
       ELSE Val(Frac(AtRank((n + 1) \div 2) + AtRank((n \div 2) + 1), 2))

\* C14, as claimed: the window mean and the window median of a cell are
\* taken over the neighbours that are neither no-data nor out of bounds
\* (the mean divided by their number), and are no-data only with none left.
C14_StatisticsSkipNoData ==
    (Constructed /\ stage # "none")
        => /\ Same(ti_mean, MeanOf(ValidValues("ti")))
           /\ Same(tj_mean, MeanOf(ValidValues("tj")))
           /\ Same(ti_median, MedianOf(ValidValues("ti")))
           /\ Same(tj_median, MedianOf(ValidValues("tj")))

\* the cell's ratio has been estimated
RatioEstimated == stage \in {"ratio", "cwv"}

\* all neighbours of the cell have data (an interior cell with data)
Interior ==
    \A k \in 1 .. Len(adjacent_pixels.val) :
        /\ ~Sample(scene.val, "ti", adjacent_pixels.val[k]).null
        /\ ~Sample(scene.val, "tj", adjacent_pixels.val[k]).null

\* ti and tj are the same at every neighbour of the cell
Identical ==
    \A k \in 1 .. Len(adjacent_pixels.val) :
        Sample(scene.val, "ti", adjacent_pixels.val[k])
            = Sample(scene.val, "tj", adjacent_pixels.val[k])

\* ti is the same at every neighbour of the cell
Flat ==
    \A k \in 1 .. Len(adjacent_pixels.val) :
        Sample(scene.val, "ti", adjacent_pixels.val[k])
            = Sample(scene.val, "ti", adjacent_pixels.val[1])

\* C15, as claimed: where ti and tj are the same pointwise, Rji is undefined
\* (zero denominator) at every interior cell.
C15_Original ==
    (RatioEstimated /\ Interior /\ Identical) => rji.null

\* C15, amended: where ti and tj are the same pointwise, Rji is 1 at every
\* interior cell whose neighbourhood is not flat (numerator and denominator
\* are the same sum of squares), and undefined only where it is flat.
C15_IdenticalChannelsGiveOne ==
    (RatioEstimated /\ Interior /\ Identical)
        => IF Flat THEN rji.null
           ELSE ~rji.null /\ rji.val = [num |-> 1, den |-> 1]

C15_Witness ==
    /\ RatioEstimated /\ Interior /\ Identical /\ ~Flat
    /\ cwv_module = "column_water_vapour" /\ window_size.val = 3
    /\ ~rji.null /\ rji.val = [num |-> 1, den |-> 1]

\* C16, as claimed: estimate_cwv goes on where the denominator of Rji is
\* zero at a cell: no error ends the run, the column water vapor of that
\* cell is no-data, and that of every cell with a ratio is computed.
C16_FlatIsNoDataRunGoesOn ==
    /\ run # "TypeError"
    /\ stage = "cwv" => (rji.null <=> cwv_estimate.null)
    /\ (RatioEstimated /\ Interior /\ Flat) => rji.null

\* C17, as claimed: every estimator has c0 = 9.087, c1 = 0.653 and
\* c2 = -9.674 after construction and after any of its methods, and maps a
\* ratio R to 9.087 + 0.653 * R - 9.674 * R^2.
C17_FixedTriple ==
    /\ ~model_constants.null
         => model_constants.val = [c0 |-> 9087, c1 |-> 653, c2 |-> -9674]
    /\ (stage = "cwv" /\ ~rji.null)
         => LET p == rji.val.num
                q == rji.val.den
            IN /\ ~cwv_estimate.null
               /\ cwv_estimate.val.num * q * q
                     = cwv_estimate.val.den
                         * (9087 * q * q + 653 * p * q - 9674 * p * p)

\* C18: the six expressions sw_lst_1 .. sw_lst_6 are one formula that
\* differs in the coefficients b0..b7 of the subrange alone: all six hold
\* the same emissivity terms ae and de (the class's, or the names of the
\* emissivity maps), not averaged and not chosen by subrange, and on a cell
\* each is the regression of its subrange on the same t10, t11, ae and de.
C18_OneTemplate ==
    pc \in {"fixed", "map"}
        => \A n \in 1 .. 6 :
              LET formula == sw_lst_mapcalc.val.sw_lst[RangeKeys[n]] IN
              /\ formula.b = TableCoefficients(n)
              /\ formula.ae = IF pc = "fixed"
                              THEN Literal(CellAverage.val) ELSE Dummy
              /\ formula.de = IF pc = "fixed"
                              THEN Literal(CellDelta.val) ELSE Dummy
              /\ (Estimated /\ CellDefined)
                    => EvalSubrange(formula, avg_lse, delta_lse,
                                    t10.val, t11.val) = Val(Regression(n))

C18_Witness ==
    /\ Estimated /\ pc = "map" /\ CellDefined
    /\ sw_lst_mapcalc.val.sw_lst["Range_1"].ae = Dummy
    /\ sw_lst_mapcalc.val.sw_lst["Range_6"].ae = Dummy
    /\ sw_lst_mapcalc.val.sw_lst["Range_1"].b
          # sw_lst_mapcalc.val.sw_lst["Range_6"].b
    /\ Regression(1) # Regression(6)
    /\ EvalSubrange(sw_lst_mapcalc.val.sw_lst["Range_6"], avg_lse,
                    delta_lse, t10.val, t11.val) = Val(Regression(6))

\* a temperature in units of 1/400000 K rounded to 2 decimal places
RoundedToTwoDecimals(x) == ((x + 2000) \div 4000) * 4000

\* C19, as claimed: rounding and the conversion to Celsius are steps on the
\* resolved land surface temperature of the cell (after subrange selection
\* and blending): with the rounding flag the output is that temperature
\* rounded to 2 decimal places, with the Celsius flag it is the value minus
\* 273.15, and with both the rounding comes before the subtraction.
C19_RoundingThenCelsius ==
    Estimated
        => IF lst.null THEN outname.null
           ELSE /\ ~outname.null
                /\ outname.val =
                      (IF rounding THEN RoundedToTwoDecimals(lst.val)
                       ELSE lst.val)
                          - (IF celsius THEN 109260000 ELSE 0)

C21_BothVariantsBuild ==
    \A median \in BOOLEAN :
        (~asked.null /\ asked.val.median = median /\ ~window_size.null
           /\ WindowAccepted(window_size.val))
            => run = "none"

\* C22, as claimed: estimate_lst called with both a land cover map and a
\* land cover class name, or with neither, is rejected: it ends with an
\* error and writes no land surface temperature; called with exactly one
\* of them on the object built for it, it ends without error.
C22_ExactlyOneOfMapAndClass ==
    ~lst_args.null =>
        LET map_given == lst_args.val.landcover_map # ""
            class_given == lst_args.val.landcover_class # ""
        IN /\ (map_given <=> class_given)
                 => (lst_error # "none" /\ lst.null)
           /\ (map_given /\ ~class_given /\ pc = "map")
                 => lst_error = "none"
           /\ (class_given /\ ~map_given /\ pc = "fixed")
                 => lst_error = "none"

\* C23: every entry of the emissivity table has both channel emissivities
\* in (0, 1] (1 .. 1000 thousandths); so an object constructed for a fixed
\* class has both emissivities in (0, 1], its average emissivity in (0, 1]
\* (1 .. 2000 in units of 1/2000), and the average emissivity written into
\* each of the six subrange expressions is a literal other than 0: the
\* divisions by ae and ae^2 never divide by zero.
C23_EmissivityInRange ==
    /\ \A class \in EmissivityKeys :
          /\ EMISSIVITIES[class].TIRS10 \in 1 .. 1000
          /\ EMISSIVITIES[class].TIRS11 \in 1 .. 1000
    /\ pc = "fixed" =>
          /\ emissivity_t10.val \in 1 .. 1000
          /\ emissivity_t11.val \in 1 .. 1000
          /\ average_emissivity.val \in 1 .. 2000
          /\ \A key \in DOMAIN sw_lst_mapcalc.val.sw_lst :
                LET ae == sw_lst_mapcalc.val.sw_lst[key].ae
                IN ~ae.dummy /\ ae.val \in 1 .. 2000

C23_Witness ==
    /\ pc = "fixed"
    /\ landcover_class = "Grasslands"
    /\ emissivity_t10 = Val(970)
    /\ emissivity_t11 = Val(971)
    /\ average_emissivity = Val(1941)
    /\ sw_lst_mapcalc.val.sw_lst["Range_3"].ae = Literal(1941)

\* C24, as claimed: after _set_adjacent_cwv_subranges(cwv) the subranges are
\* stored on the object in exactly one of two forms: _cwv_subrange is a key
\* of the table and _cwv_subrange_a, _cwv_subrange_b are both False, or
\* _cwv_subrange is False and _cwv_subrange_a, _cwv_subrange_b are two
\* adjacent keys.
C24_OneOfTwoFormsStored ==
    (~returned.null /\ returned.val.call = "_set_adjacent_cwv_subranges")
        => /\ ~cwv_subrange.null /\ ~cwv_subrange_a.null
           /\ ~cwv_subrange_b.null
           /\ \/ /\ cwv_subrange.val \in DOMAIN COLUMN_WATER_VAPOR
                 /\ cwv_subrange_a.val = "False"
                 /\ cwv_subrange_b.val = "False"
              \/ /\ cwv_subrange.val = "False"
                 /\ \E n \in 1 .. 4 :
                       /\ cwv_subrange_a.val = RangeKeys[n]
                       /\ cwv_subrange_b.val = RangeKeys[n + 1]

\* the coefficients of the table for a subrange: b7 only for Barren_Land
CoefficientsOfTable(key) ==
    LET b == COLUMN_WATER_VAPOR[key].b IN
    <<b[1], b[2], b[3], b[4], b[5], b[6], b[7],
      IF landcover_class = "Barren_Land" THEN b[8] ELSE 0>>

\* C25, as claimed: get_cwv_coefficients called before any
\* _set_cwv_coefficients raises nothing and returns nothing; called after,
\* it returns the eight coefficients the object holds, which are those of a
\* subrange of the table with b7 zeroed unless the class is Barren_Land;
\* and report_rmse after _set_rmse reports the RMSE the object holds.
C25_GetAfterAndBeforeSet ==
    /\ (~returned.null /\ returned.val.call = "get_cwv_coefficients")
          => /\ returned.val.error = "none"
             /\ IF cwv_coefficients.null THEN returned.val.value = <<>>
                ELSE /\ returned.val.value = cwv_coefficients.val
                     /\ \E key \in DOMAIN COLUMN_WATER_VAPOR :
                           returned.val.value = CoefficientsOfTable(key)
    /\ (~returned.null /\ returned.val.call = "report_rmse" /\ ~rmse.null)
          => returned.val.value = <<rmse.val>>

\* C26, as claimed: an estimator built for a window of size n has n * n
\* adjacent pixels: the modifier lists of ti and of tj have n * n entries
\* each and the mean divides by n * n.
C26_WindowOfNSquared ==
    cwv_pc = "built"
        => LET n == window_size.val IN
           /\ Len(adjacent_pixels.val) = n * n
           /\ Len(mean_ti_expression.val.modifiers) = n * n
           /\ Len(mean_tj_expression.val.modifiers) = n * n
           /\ mean_ti_expression.val.length = n * n
           /\ mean_tj_expression.val.length = n * n

\* the place of a key in the table: 1 for 'Range_1' .. 6 for 'Range_6'
KeyIndex(key) == CHOOSE n \in 1 .. 6 : RangeKeys[n] = key

RegressionWithoutB7(n) ==
    LstFormula([i \in 1 .. 8 |->
                   IF i = 8 THEN 0 ELSE COLUMN_WATER_VAPOR[RangeKeys[n]].b[i]],
               CellAverage.val, CellDelta.val, t10.val, t11.val)

RegressionWithB7(n) ==
    LstFormula(COLUMN_WATER_VAPOR[RangeKeys[n]].b,
               CellAverage.val, CellDelta.val, t10.val, t11.val)

C29_RandomIsOneClass ==
    (pc = "fixed" /\ landcover = "Random")
        => /\ landcover_class \in EmissivityKeys
           /\ landcover_class # "Random"
           /\ LET e10 == EMISSIVITIES[landcover_class].TIRS10
                  e11 == EMISSIVITIES[landcover_class].TIRS11
              IN /\ emissivity_t10 = Val(e10)
                 /\ emissivity_t11 = Val(e11)
                 /\ average_emissivity = Val(e10 + e11)
                 /\ delta_emissivity = Val(e10 - e11)
                 /\ \A n \in 1 .. 6 :
                       LET formula == sw_lst_mapcalc.val.sw_lst[RangeKeys[n]]
                       IN /\ formula.ae = Literal(e10 + e11)
                          /\ formula.de = Literal(e10 - e11)
                          /\ formula.b[8] =
                                IF landcover_class = "Barren_Land"
                                THEN COLUMN_WATER_VAPOR[RangeKeys[n]].b[8]
                                ELSE 0

C29_Witness ==
    /\ pc = "fixed" /\ landcover = "Random"
    /\ landcover_class = "Barren_Land"
    /\ emissivity_t10 = Val(969) /\ emissivity_t11 = Val(978)
    /\ sw_lst_mapcalc.val.sw_lst["Range_1"].ae = Literal(1947)
    /\ sw_lst_mapcalc.val.sw_lst["Range_1"].de = Literal(-9)
    /\ sw_lst_mapcalc.val.sw_lst["Range_1"].b[8] = 9

=============================================================================
